---- MODULE Spec2Model ----
(***************************************************************************)
(* Model of the video-handout application: the App screen machine, the    *)
(* FrameCapturer component with its auto-select scan (handleAutoCapture),  *)
(* the Gemini service bindings (filterBestFrames, generateHandoutContent)  *)
(* and the pairing of steps and frames of HandoutDisplay.                  *)
(*                                                                         *)
(* The <video> element follows the HTML media element: assigning           *)
(* currentTime moves the position read back from it at once and starts a   *)
(* seek, whose seek-completed notification may come late or never.         *)
(*                                                                         *)
(* Time.  All video positions are counted in ticks of 1/(steps+1) second,   *)
(* and the durations the model draws are whole seconds, so the division     *)
(* duration / (steps + 1) of the scan is exact.                             *)
(***************************************************************************)
EXTENDS Integers, Naturals, Sequences, FiniteSets, TLC

(* ----------------------------- bounds ---------------------------------- *)
MaxSeconds == 1          \* longest video, in seconds
MaxScans == 1            \* confirmed auto-select runs, for each FrameCapturer
                         \* mounted after a press on Back and for the first one
MaxManual == 1           \* manual captures per behaviour
MaxSel == 2              \* longest index list of a ranking response
MaxSurfaceChanges == 1   \* changes of the drawing surface's condition
MaxDocSteps == 2         \* most steps of a generated document
MaxLinger == 1           \* timers of earlier seek waits still pending at a seek
MaxPrior == 3            \* frames already in the Curated Set at the start
MaxGenCalls == 2         \* calls of the generation capability per behaviour
MaxAdvances == 1         \* times the position of a playing video moves on
MaxEvents == 2           \* play and pause events a click may find undelivered
MaxBacks == 1            \* presses on the Back button per behaviour

(* ------------------------ program constants ---------------------------- *)
steps == 12
NaN == 0 - 1             \* video.duration before the metadata is known
Infinity == 0 - 2        \* video.duration of an unbounded stream
HAVE_CURRENT_DATA == 2   \* the readyState the scan requires

TicksPerSecond == steps + 1

VARIABLES
  \* App
  appState, videoFile, appFrames, handoutData, error, genRequest, genCalls,
  \* FrameCapturer state
  frames, isPlaying, isAnalyzing, statusMessage, debugLogs,
  \* the <video> element and the canvas
  readyState, duration, currentTime, paused, seekPending, mediaEvents,
  surface,
  \* the deferred scan of handleAutoCapture in the mounted FrameCapturer,
  \* and the scans and timers of the FrameCapturers unmounted since
  pc, i, interval, candidates, waits, listeners, timers, detached,
  \* what the user and the services observed
  alertMsg, attempts, fails, rankRequest, rankCalls, outcome, lastResp,
  curated, scanError,
  \* counters
  scans, manual, surfaceChanges, advances, backs

appVars == <<appState, videoFile, appFrames, handoutData, error, genRequest,
            genCalls>>
compVars == <<frames, isPlaying, isAnalyzing, statusMessage, debugLogs>>
videoVars == <<readyState, duration, currentTime, paused, seekPending,
              mediaEvents>>
scanVars == <<pc, i, interval, candidates, waits, listeners, timers,
             detached>>
obsVars == <<attempts, fails, rankRequest, rankCalls, outcome, lastResp,
            curated, scanError>>
countVars == <<scans, manual, surfaceChanges, advances, backs>>
vars == <<appVars, compVars, videoVars, surface, scanVars, alertMsg, obsVars,
          countVars>>

(* ----------------------------- helpers --------------------------------- *)
NoFile == 0
TheFile == 1
Null == [kind |-> "null", title |-> FALSE, summary |-> FALSE, steps |-> 0 - 1]
HandoutData(t, s, n) == [kind |-> "doc", title |-> t, summary |-> s, steps |-> n]

Durations == {s * TicksPerSecond : s \in 1..MaxSeconds}

isNaN(d) == d = NaN

\* A status message or a log line: its wording and the number it shows.
Msg(kind, n) == [kind |-> kind, n |-> n, text |-> ""]
NoMsg == Msg("", 0)
\* A line that quotes an error message.
ErrMsg(kind, text) == [kind |-> kind, n |-> 0, text |-> text]

\* Number.prototype.toFixed(1) of a position given in ticks: tenths of a
\* second, rounded to nearest.
toFixed1(t) == (20 * t + TicksPerSecond) \div (2 * TicksPerSecond)

\* addLog: keep the last three entries and append the new one.
addLog(logs, msg) ==
  LET n == Len(logs)
      tail == IF n <= 3 THEN logs ELSE SubSeq(logs, n - 2, n)
  IN Append(tail, msg)

CapturedFrame(id, ts) == [id |-> id, timestamp |-> ts]

\* A frame extractor that hands out a frame whatever the drawing surface
\* does.
createFrameFromVideoRegardless(surf, id, ts) ==
  [res |-> "frame", frame |-> CapturedFrame(id, ts)]

\* createFrameFromVideo: "frame" with the frame, "null" when the canvas or
\* its 2d context is missing, "throw" when the export is blocked.
createFrameFromVideo(surf, id, ts) ==
  IF surf = "noctx" THEN [res |-> "null", frame |-> CapturedFrame(0, 0)]
  ELSE IF surf = "tainted" THEN [res |-> "throw", frame |-> CapturedFrame(0, 0)]
  ELSE [res |-> "frame", frame |-> CapturedFrame(id, ts)]

\* The marker of an array hole: candidates[idx] for an idx that is no index.
undefined == CapturedFrame(0 - 1, 0 - 1)

\* A selection that walks the candidates and keeps the selected ones: the
\* result is in candidate order and holds no candidate twice.
finalFramesInCandidateOrder(cands, sel) ==
  SelectSeq(cands, LAMBDA f :
    \E k \in 1..Len(sel) :
      sel[k] >= 0 /\ sel[k] < Len(cands) /\ cands[sel[k] + 1] = f)

\* selectedIndices.map(idx => candidates[idx]).filter(f => f !== undefined)
finalFrames(cands, sel) ==
  LET mapped == [k \in 1..Len(sel) |->
                   IF sel[k] >= 0 /\ sel[k] < Len(cands)
                     THEN cands[sel[k] + 1] ELSE undefined]
  IN SelectSeq(mapped, LAMBDA f : f # undefined)

\* A binding that submits the frames in the order it was given.
sortedFramesSkipped(fs) == fs

\* [...frames].sort((a, b) => a.timestamp - b.timestamp): a stable sort of
\* a copy, here by insertion.
RECURSIVE insertFrame(_, _)
insertFrame(sorted, f) ==
  IF sorted = <<>> THEN <<f>>
  ELSE IF sorted[Len(sorted)].timestamp <= f.timestamp THEN Append(sorted, f)
  ELSE Append(insertFrame(SubSeq(sorted, 1, Len(sorted) - 1), f),
              sorted[Len(sorted)])

RECURSIVE sortedFrames(_)
sortedFrames(fs) ==
  IF fs = <<>> THEN <<>>
  ELSE insertFrame(sortedFrames(SubSeq(fs, 1, Len(fs) - 1)), fs[Len(fs)])

(* ---------------------- the external capabilities ---------------------- *)
\* Index values a ranking response may hold for n candidates: a negative
\* one, the first ones, the last valid one, the first invalid one, and 15.
IndexPool(n) == {0 - 1, 0, 1, n - 1, n, 15}

IndexLists(n) ==
  UNION {[1..len -> IndexPool(n)] : len \in 0..MaxSel}

\* What the ranking capability answers: a rejected call, an empty text, a
\* text that is no JSON, a JSON object without selectedIndices, or one
\* with an index list.
RankResponses(n) ==
  {[kind |-> k, sel |-> <<>>] :
      k \in {"reject", "empty", "unparsable", "noIndices"}}
  \cup {[kind |-> "indices", sel |-> s] : s \in IndexLists(n)}

NoResponse == [kind |-> "none", sel |-> <<>>]

\* A binding that answers an empty text with an empty selection instead of
\* an error.
filterBestFramesLenient(resp) ==
  IF resp.kind = "reject"
    THEN [res |-> "throw", msg |-> "API call failed", sel |-> <<>>]
  ELSE IF resp.kind = "empty"
    THEN [res |-> "array", msg |-> "", sel |-> <<>>]
  ELSE IF resp.kind = "unparsable"
    THEN [res |-> "throw", msg |-> "SyntaxError", sel |-> <<>>]
  ELSE IF resp.kind = "noIndices"
    THEN [res |-> "undefined", msg |-> "", sel |-> <<>>]
  ELSE [res |-> "array", msg |-> "", sel |-> resp.sel]

\* filterBestFrames, from the response on: the value returned or the
\* error thrown.
filterBestFrames(resp) ==
  IF resp.kind = "reject"
    THEN [res |-> "throw", msg |-> "API call failed", sel |-> <<>>]
  ELSE IF resp.kind = "empty"
    THEN [res |-> "throw", msg |-> "No response from Gemini", sel |-> <<>>]
  ELSE IF resp.kind = "unparsable"
    THEN [res |-> "throw", msg |-> "SyntaxError", sel |-> <<>>]
  ELSE IF resp.kind = "noIndices"
    THEN [res |-> "undefined", msg |-> "", sel |-> <<>>]
  ELSE [res |-> "array", msg |-> "", sel |-> resp.sel]

\* What the generation capability answers: a rejected call, an empty text,
\* a text that is no JSON, the JSON null, a complete document, or a
\* document without its title, its summary or its steps (steps = -1).
GenResponses ==
  {[kind |-> k, data |-> Null] : k \in {"reject", "empty", "unparsable"}}
  \cup {[kind |-> "json", data |-> Null]}
  \cup {[kind |-> "json", data |-> HandoutData(TRUE, TRUE, n)] :
          n \in 0..MaxDocSteps}
  \cup {[kind |-> "json", data |-> d] :
          d \in {HandoutData(FALSE, TRUE, 1), HandoutData(TRUE, FALSE, 1),
                 HandoutData(TRUE, TRUE, 0 - 1)}}

\* generateHandoutContent, from the response on: the document returned,
\* or the error rethrown with its message.
generateHandoutContent(resp) ==
  IF resp.kind = "json" THEN [res |-> "return", data |-> resp.data, msg |-> ""]
  ELSE IF resp.kind = "reject"
    THEN [res |-> "throw", data |-> Null, msg |-> "API call failed"]
  ELSE IF resp.kind = "empty"
    THEN [res |-> "throw", data |-> Null, msg |-> "No response from Gemini"]
  ELSE [res |-> "throw", data |-> Null, msg |-> "SyntaxError"]

\* The image of a step that has no frame: sortedFrames[index] || null.
NoImage == CapturedFrame(0 - 2, 0 - 2)

\* A display that pairs the steps with the frames in the order stored.
displayFramesAsStored(fs) == fs

\* HandoutDisplay: [...frames].sort((a, b) => a.timestamp - b.timestamp)
displaySortedFrames(fs) == sortedFrames(fs)

\* A display that shows only the steps that have a frame.
stepsWithImagesZipped(data, fs) ==
  IF data.steps < 0 THEN [res |-> "throw", steps |-> <<>>]
  ELSE LET sorted == displaySortedFrames(fs)
           shown == IF data.steps <= Len(sorted) THEN data.steps
                    ELSE Len(sorted)
       IN [res |-> "rendered",
           steps |-> [index \in 1..shown |->
                        [step |-> index, image |-> sorted[index]]]]

\* HandoutDisplay, stepsWithImages: data.steps.map over a document without
\* steps throws; step index (from 1 here) gets the frame at that index of
\* the sorted frames, or no image.
stepsWithImages(data, fs) ==
  IF data.steps < 0 THEN [res |-> "throw", steps |-> <<>>]
  ELSE LET sorted == displaySortedFrames(fs)
       IN [res |-> "rendered",
           steps |-> [index \in 1..data.steps |->
                        [step |-> index,
                         image |-> IF index <= Len(sorted) THEN sorted[index]
                                   ELSE NoImage]]]

GenericError == "We encountered an issue while generating your handout."

CanvasError == "Canvas export failed (Security/CORS)"
NoFramesError == "No valid frames could be captured."
TypeError == "TypeError: Cannot read properties of undefined"

(* ------------------------------- Init ---------------------------------- *)
\* Conditions of the drawing surface: usable, without a 2d context, or
\* tainted by the video so that the export is blocked.
Surfaces == {"ok", "noctx", "tainted"}

Mounted == appState = "CAPTURE" /\ videoFile # NoFile

\* The scan holds its <video> element in a local and its timers stay
\* registered: when the FrameCapturer is unmounted, its scan and its timers
\* go on with that element, which keeps its duration and may still deliver
\* a seek-completed notification.  The state setters of the unmounted
\* component change nothing and its canvasRef.current is null.
DetachedScan ==
  [scan |-> scans, pc |-> pc, i |-> i, interval |-> interval,
   candidates |-> candidates, waits |-> waits, listeners |-> listeners,
   timers |-> timers, duration |-> duration, seekPending |-> seekPending]

\* The unmount of the FrameCapturer: what its scan and its timers need goes
\* with them, the next FrameCapturer starts without a scan.
Unmount ==
  /\ detached' = IF pc # "idle" \/ timers # {}
                   THEN detached \cup {DetachedScan} ELSE detached
  /\ pc' = "idle"
  /\ i' = 0
  /\ interval' = 0
  /\ candidates' = <<>>
  /\ waits' = {}
  /\ listeners' = {}
  /\ timers' = {}

\* A FrameCapturer as it is right after mounting, with its <video> element
\* still unloaded.
FreshCapturer ==
  /\ frames' = <<>>
  /\ isPlaying' = FALSE
  /\ isAnalyzing' = FALSE
  /\ statusMessage' = NoMsg
  /\ debugLogs' = <<>>
  /\ readyState' = 0
  /\ duration' = NaN
  /\ currentTime' = 0
  /\ paused' = TRUE
  /\ seekPending' = FALSE
  /\ mediaEvents' = <<>>
  \* nothing of the unmounted component's last scan is on screen any more
  /\ alertMsg' = NoMsg
  /\ attempts' = 0
  /\ fails' = 0
  /\ rankRequest' = <<>>
  /\ rankCalls' = 0
  /\ outcome' = "none"
  /\ lastResp' = NoResponse
  /\ curated' = <<>>
  /\ scanError' = ""

Init ==
  /\ appState = "UPLOAD"
  /\ videoFile = NoFile
  /\ appFrames = <<>>
  /\ handoutData = Null
  /\ error = "null"
  /\ genRequest = <<>>
  /\ genCalls = 0
  /\ frames = <<>>
  /\ isPlaying = FALSE
  /\ isAnalyzing = FALSE
  /\ statusMessage = NoMsg
  /\ debugLogs = <<>>
  /\ readyState = 0
  /\ duration = NaN
  /\ currentTime = 0
  /\ paused = TRUE
  /\ seekPending = FALSE
  /\ mediaEvents = <<>>
  /\ surface \in Surfaces
  /\ pc = "idle"
  /\ i = 0
  /\ interval = 0
  /\ candidates = <<>>
  /\ waits = {}
  /\ listeners = {}
  /\ timers = {}
  /\ detached = {}
  /\ alertMsg = NoMsg
  /\ attempts = 0
  /\ fails = 0
  /\ rankRequest = <<>>
  /\ rankCalls = 0
  /\ outcome = "none"
  /\ lastResp = NoResponse
  /\ curated = <<>>
  /\ scanError = ""
  /\ scans = 0
  /\ manual = 0
  /\ surfaceChanges = 0
  /\ advances = 0
  /\ backs = 0

(* ------------------------------- App ----------------------------------- *)
handleVideoSelected ==
  /\ appState = "UPLOAD"
  /\ videoFile' = TheFile
  /\ appState' = "CAPTURE"
  /\ FreshCapturer
  /\ UNCHANGED <<appFrames, handoutData, error, genRequest, genCalls,
                 surface, scanVars, countVars>>

\* The Back button of the capture screen, which a scan does not disable:
\* the FrameCapturer is unmounted, a scan that runs goes on without it.
onBack ==
  /\ Mounted
  /\ backs < MaxBacks
  /\ backs' = backs + 1
  /\ appState' = "UPLOAD"
  /\ FreshCapturer
  /\ Unmount
  /\ UNCHANGED <<videoFile, appFrames, handoutData, error, genRequest,
                 genCalls, surface, scans, manual, surfaceChanges, advances>>

\* handleGenerate up to its await: the frames are stored, the screen
\* changes and generateHandoutContent submits the sorted copy.
handleGenerateStart(capturedFrames) ==
  /\ genCalls < MaxGenCalls
  /\ appFrames' = capturedFrames
  /\ appState' = "GENERATING"
  /\ error' = "null"
  /\ genRequest' = sortedFrames(capturedFrames)
  /\ genCalls' = genCalls + 1
  /\ UNCHANGED <<videoFile, handoutData>>

onGenerate ==
  /\ Mounted
  /\ Len(frames) # 0 /\ ~isAnalyzing
  /\ handleGenerateStart(frames)
  /\ FreshCapturer
  /\ Unmount
  /\ UNCHANGED <<surface, countVars>>

\* handleGenerate after its await.
handleGenerateDone ==
  /\ appState = "GENERATING"
  /\ \E resp \in GenResponses :
       LET r == generateHandoutContent(resp)
       IN IF r.res = "return"
            THEN /\ handoutData' = r.data
                 /\ appState' = "PREVIEW"
                 /\ error' = error
            ELSE /\ error' = GenericError
                 /\ appState' = "ERROR"
                 /\ handoutData' = handoutData
  /\ UNCHANGED <<videoFile, appFrames, genRequest, genCalls, compVars,
                 videoVars, surface, scanVars, alertMsg, obsVars, countVars>>

\* A Try Again that generates from the frames of the capture screen, which
\* is not mounted.
tryAgainFromEditor ==
  /\ appState = "ERROR"
  /\ handleGenerateStart(frames)
  /\ UNCHANGED <<compVars, videoVars, surface, scanVars, alertMsg, obsVars,
                 countVars>>

tryAgain ==
  /\ appState = "ERROR"
  /\ handleGenerateStart(appFrames)
  /\ UNCHANGED <<compVars, videoVars, surface, scanVars, alertMsg, obsVars,
                 countVars>>

backToEditor ==
  /\ appState = "ERROR"
  /\ appState' = "CAPTURE"
  /\ FreshCapturer
  /\ UNCHANGED <<videoFile, appFrames, handoutData, error, genRequest,
                 genCalls, surface, scanVars, countVars>>

\* What the PREVIEW screen renders: HandoutDisplay is mounted only with a
\* document.
HandoutDisplay ==
  IF appState = "PREVIEW" /\ handoutData # Null
    THEN stepsWithImages(handoutData, appFrames)
    ELSE [res |-> "none", steps |-> <<>>]

\* The Start Over button, which is part of what HandoutDisplay renders.
handleReset ==
  /\ HandoutDisplay.res = "rendered"
  /\ appState' = "UPLOAD"
  /\ videoFile' = NoFile
  /\ appFrames' = <<>>
  /\ handoutData' = Null
  /\ error' = "null"
  /\ UNCHANGED <<genRequest, genCalls, compVars, videoVars, surface,
                 scanVars, alertMsg, obsVars, countVars>>

(* ------------------- the <video> element and the canvas ---------------- *)
\* loadedmetadata: the duration becomes known.
loadedMetadata ==
  /\ Mounted /\ readyState = 0
  /\ readyState' = 1
  /\ \E d \in Durations \cup {Infinity} : duration' = d
  /\ UNCHANGED <<appVars, compVars, currentTime, paused, seekPending,
                 mediaEvents, surface, scanVars, alertMsg, obsVars, countVars>>

\* loadeddata: the first frame is decoded.
loadedData ==
  /\ Mounted /\ readyState = 1
  /\ readyState' = HAVE_CURRENT_DATA
  /\ UNCHANGED <<appVars, compVars, duration, currentTime, paused, seekPending,
                 mediaEvents, surface, scanVars, alertMsg, obsVars, countVars>>

\* Positions at which the model looks at a playing video: one inside the
\* video and its end, or two positions of an unbounded stream.
PlayStops(d) ==
  IF d = Infinity THEN {TicksPerSecond \div 2, TicksPerSecond}
  ELSE {d \div 2, d}

\* Playback moves the position forward.  At the end the element pauses
\* itself and fires "pause" in one task, which runs after the events
\* queued before it.
playAdvance ==
  /\ Mounted /\ ~paused /\ readyState >= HAVE_CURRENT_DATA
  /\ advances < MaxAdvances
  /\ advances' = advances + 1
  /\ \E t \in PlayStops(duration) :
       /\ t > currentTime
       /\ t = duration => mediaEvents = <<>>
       /\ currentTime' = t
       /\ paused' = (t = duration)
       /\ isPlaying' = IF t = duration THEN FALSE ELSE isPlaying
  /\ UNCHANGED <<appVars, frames, isAnalyzing, statusMessage, debugLogs,
                 readyState, duration, seekPending, mediaEvents, surface,
                 scanVars, alertMsg, obsVars, scans, manual, surfaceChanges,
                 backs>>

\* The <video> delivers the oldest of its queued events: onPlay.
onPlay ==
  /\ Mounted
  /\ mediaEvents # <<>> /\ Head(mediaEvents) = "play"
  /\ mediaEvents' = Tail(mediaEvents)
  /\ isPlaying' = TRUE
  /\ UNCHANGED <<appVars, frames, isAnalyzing, statusMessage, debugLogs,
                 readyState, duration, currentTime, paused, seekPending,
                 surface, scanVars, alertMsg, obsVars, countVars>>

\* The <video> delivers the oldest of its queued events: onPause.
onPause ==
  /\ Mounted
  /\ mediaEvents # <<>> /\ Head(mediaEvents) = "pause"
  /\ mediaEvents' = Tail(mediaEvents)
  /\ isPlaying' = FALSE
  /\ UNCHANGED <<appVars, frames, isAnalyzing, statusMessage, debugLogs,
                 readyState, duration, currentTime, paused, seekPending,
                 surface, scanVars, alertMsg, obsVars, countVars>>

\* The drawing surface gains or loses its 2d context, or the video becomes
\* tainted.
surfaceChange ==
  /\ Mounted /\ surfaceChanges < MaxSurfaceChanges
  \* only the condition at a capture matters: it changes right before one
  /\ pc \in {"idle", "settle"}
  /\ \E s \in Surfaces \ {surface} : surface' = s
  /\ surfaceChanges' = surfaceChanges + 1
  /\ UNCHANGED <<appVars, compVars, videoVars, scanVars, alertMsg, obsVars,
                 scans, manual, advances, backs>>

(* --------------------------- FrameCapturer ----------------------------- *)
\* togglePlay: pause() or play() by the isPlaying state, which is flipped.
\* pause() of a playing video and play() of a paused one queue the event
\* that onPause or onPlay handles later; the other calls change nothing.
togglePlay ==
  /\ Mounted
  /\ Len(mediaEvents) < MaxEvents
  /\ IF isPlaying
       THEN /\ paused' = TRUE
            /\ mediaEvents' = IF paused THEN mediaEvents
                              ELSE Append(mediaEvents, "pause")
            /\ UNCHANGED <<currentTime, seekPending>>
       ELSE /\ paused' = FALSE
            /\ mediaEvents' = IF paused THEN Append(mediaEvents, "play")
                              ELSE mediaEvents
            \* play() on an ended video seeks back to the start
            /\ IF currentTime = duration
                 THEN currentTime' = 0 /\ seekPending' = TRUE
                 ELSE UNCHANGED <<currentTime, seekPending>>
  /\ isPlaying' = ~isPlaying
  /\ UNCHANGED <<appVars, frames, isAnalyzing, statusMessage, debugLogs,
                 readyState, duration, surface, scanVars, alertMsg, obsVars,
                 countVars>>

\* A click event on the play overlay of the video: its onClick is
\* togglePlay, with no test of isAnalyzing.  While a scan runs the analysis
\* overlay is rendered above the video pane, so that a click reaches the
\* play overlay only when it is dispatched on that element.
playOverlay == togglePlay

\* The play button of the controls bar, disabled while a scan runs.
playButton == ~isAnalyzing /\ togglePlay

\* The id of a frame is a fresh random token: the model names it after the
\* capture that made it, the m-th manual capture or the seek wait of the
\* scan iteration.
ManualId(m) == m
ScanId(w) == MaxManual + w

captureFrame ==
  /\ Mounted /\ ~isAnalyzing
  /\ manual < MaxManual
  /\ manual' = manual + 1
  /\ LET r == createFrameFromVideo(surface, ManualId(manual + 1), currentTime)
     IN /\ frames' = IF r.res = "frame" THEN Append(frames, r.frame)
                     ELSE frames
        /\ alertMsg' = IF r.res = "throw"
                         THEN ErrMsg("Could not capture frame.", CanvasError)
                         ELSE alertMsg
  /\ UNCHANGED <<appVars, isPlaying, isAnalyzing, statusMessage, debugLogs,
                 videoVars, surface, scanVars, obsVars, scans, surfaceChanges,
                 advances, backs>>

\* A removal that hands back the remaining frames in reverse order.
removeFrameReversed(id) ==
  LET rest == SelectSeq(frames, LAMBDA f : f.id # id)
  IN [k \in 1..Len(rest) |-> rest[Len(rest) + 1 - k]]

removeFrame(id) == SelectSeq(frames, LAMBDA f : f.id # id)

onRemoveFrame ==
  /\ Mounted
  /\ \E k \in 1..Len(frames) : frames' = removeFrame(frames[k].id)
  /\ UNCHANGED <<appVars, isPlaying, isAnalyzing, statusMessage, debugLogs,
                 videoVars, surface, scanVars, alertMsg, obsVars, countVars>>

(* ------------------------- handleAutoCapture --------------------------- *)
\* A click handler that asks for the confirmation without checking the
\* video first.
handleAutoCaptureUnchecked ==
  /\ Mounted /\ ~isAnalyzing
  /\ scans < MaxScans * (1 + backs)
  /\ \E confirmed \in BOOLEAN :
       /\ alertMsg' = Msg("This will clear your current frames. Continue?", 0)
       /\ IF ~confirmed
         THEN UNCHANGED <<compVars, scanVars, obsVars, scans>>
         ELSE /\ frames' = <<>>
              /\ isAnalyzing' = TRUE
              /\ debugLogs' = addLog(<<>>, Msg("Process started...", 0))
              /\ statusMessage' = Msg("Initializing auto-select...", 0)
              /\ pc' = "deferred"
              /\ scans' = scans + 1
              /\ attempts' = 0
              /\ fails' = 0
              /\ rankCalls' = 0
              /\ rankRequest' = <<>>
              /\ lastResp' = NoResponse
              /\ curated' = <<>>
              /\ scanError' = ""
              /\ outcome' = "running"
              /\ UNCHANGED <<isPlaying, i, interval, candidates, waits,
                             listeners, timers, detached>>
  /\ UNCHANGED <<appVars, videoVars, surface, manual, surfaceChanges,
                 advances, backs>>

\* A click handler that clears the frames before it asks.
handleAutoCaptureClearsFirst ==
  /\ Mounted /\ ~isAnalyzing
  /\ scans < MaxScans * (1 + backs)
  /\ IF readyState < HAVE_CURRENT_DATA
       THEN /\ alertMsg' = Msg("Video is not ready.", 0)
            /\ UNCHANGED <<compVars, scanVars, obsVars, scans>>
     ELSE IF isNaN(duration) \/ duration = Infinity
       THEN /\ alertMsg' = Msg("Cannot determine video duration.", 0)
            /\ UNCHANGED <<compVars, scanVars, obsVars, scans>>
     ELSE \E confirmed \in BOOLEAN :
       /\ alertMsg' = Msg("This will clear your current frames. Continue?", 0)
       /\ frames' = <<>>
       /\ IF ~confirmed
         THEN UNCHANGED <<isPlaying, isAnalyzing, statusMessage, debugLogs,
                          scanVars, obsVars, scans>>
         ELSE /\ isAnalyzing' = TRUE
              /\ debugLogs' = addLog(<<>>, Msg("Process started...", 0))
              /\ statusMessage' = Msg("Initializing auto-select...", 0)
              /\ pc' = "deferred"
              /\ scans' = scans + 1
              /\ attempts' = 0
              /\ fails' = 0
              /\ rankCalls' = 0
              /\ rankRequest' = <<>>
              /\ lastResp' = NoResponse
              /\ curated' = <<>>
              /\ scanError' = ""
              /\ outcome' = "running"
              /\ UNCHANGED <<isPlaying, i, interval, candidates, waits,
                             listeners, timers, detached>>
  /\ UNCHANGED <<appVars, videoVars, surface, manual, surfaceChanges,
                 advances, backs>>

\* A click handler that leaves the frames for the scan to replace.
handleAutoCaptureKeepsFrames ==
  /\ Mounted /\ ~isAnalyzing
  /\ scans < MaxScans * (1 + backs)
  /\ IF readyState < HAVE_CURRENT_DATA
       THEN /\ alertMsg' = Msg("Video is not ready.", 0)
            /\ UNCHANGED <<compVars, scanVars, obsVars, scans>>
     ELSE IF isNaN(duration) \/ duration = Infinity
       THEN /\ alertMsg' = Msg("Cannot determine video duration.", 0)
            /\ UNCHANGED <<compVars, scanVars, obsVars, scans>>
     ELSE \E confirmed \in BOOLEAN :
       /\ alertMsg' = Msg("This will clear your current frames. Continue?", 0)
       /\ IF ~confirmed
         THEN UNCHANGED <<compVars, scanVars, obsVars, scans>>
         ELSE /\ frames' = frames
              /\ isAnalyzing' = TRUE
              /\ debugLogs' = addLog(<<>>, Msg("Process started...", 0))
              /\ statusMessage' = Msg("Initializing auto-select...", 0)
              /\ pc' = "deferred"
              /\ scans' = scans + 1
              /\ attempts' = 0
              /\ fails' = 0
              /\ rankCalls' = 0
              /\ rankRequest' = <<>>
              /\ lastResp' = NoResponse
              /\ curated' = <<>>
              /\ scanError' = ""
              /\ outcome' = "running"
              /\ UNCHANGED <<isPlaying, i, interval, candidates, waits,
                             listeners, timers, detached>>
  /\ UNCHANGED <<appVars, videoVars, surface, manual, surfaceChanges,
                 advances, backs>>

\* The click on Auto-Select: the precondition checks, the confirmation and
\* the state update; the scan itself is deferred.
handleAutoCapture ==
  /\ Mounted /\ ~isAnalyzing
  /\ scans < MaxScans * (1 + backs)
  /\ IF readyState < HAVE_CURRENT_DATA
       THEN /\ alertMsg' = Msg("Video is not ready.", 0)
            /\ UNCHANGED <<compVars, scanVars, obsVars, scans>>
     ELSE IF isNaN(duration) \/ duration = Infinity
       THEN /\ alertMsg' = Msg("Cannot determine video duration.", 0)
            /\ UNCHANGED <<compVars, scanVars, obsVars, scans>>
     ELSE \E confirmed \in BOOLEAN :
       \* window.confirm is the message box the user saw last
       /\ alertMsg' = Msg("This will clear your current frames. Continue?", 0)
       /\ IF ~confirmed
         THEN UNCHANGED <<compVars, scanVars, obsVars, scans>>
         ELSE /\ frames' = <<>>
              /\ isAnalyzing' = TRUE
              /\ debugLogs' = addLog(<<>>, Msg("Process started...", 0))
              /\ statusMessage' = Msg("Initializing auto-select...", 0)
              /\ pc' = "deferred"
              /\ scans' = scans + 1
              /\ attempts' = 0
              /\ fails' = 0
              /\ rankCalls' = 0
              /\ rankRequest' = <<>>
              /\ lastResp' = NoResponse
              /\ curated' = <<>>
              /\ scanError' = ""
              /\ outcome' = "running"
              /\ UNCHANGED <<isPlaying, i, interval, candidates, waits,
                             listeners, timers, detached>>
  /\ UNCHANGED <<appVars, videoVars, surface, manual, surfaceChanges,
                 advances, backs>>

\* The deferred callback up to the first await of the loop.
scanStart ==
  /\ pc = "deferred"
  /\ debugLogs' = addLog(debugLogs, Msg("Duration", toFixed1(duration)))
  /\ interval' = duration \div (steps + 1)
  /\ candidates' = <<>>
  \* video.pause(), which queues "pause" when the video plays, and
  \* setIsPlaying(false)
  /\ paused' = TRUE
  /\ mediaEvents' = IF paused THEN mediaEvents
                    ELSE Append(mediaEvents, "pause")
  /\ isPlaying' = FALSE
  /\ i' = 1
  /\ statusMessage' = Msg("Scanning video... Frame", 1)
  /\ pc' = "yield"
  /\ UNCHANGED <<appVars, frames, isAnalyzing, readyState, duration,
                 currentTime, seekPending, surface, waits, listeners, timers,
                 detached, alertMsg, obsVars, countVars>>

\* The seek wait of iteration k of scan number s.
WaitId(s, k) == (s - 1) * steps + k
CurWait == WaitId(scans, i)

\* A scan whose first seek target is the start of the video.
seekRequestFromStart ==
  /\ pc = "yield"
  /\ Cardinality(timers) <= MaxLinger
  /\ currentTime' = interval * (i - 1)
  /\ seekPending' = TRUE
  /\ waits' = waits \cup {CurWait}
  /\ listeners' = listeners \cup {CurWait}
  /\ timers' = timers \cup {CurWait}
  /\ pc' = "seekwait"
  /\ UNCHANGED <<appVars, compVars, readyState, duration, paused, mediaEvents,
                 surface, i, interval, candidates, detached, alertMsg, obsVars,
                 countVars>>

\* After the yield: the seek is requested and the seek wait is set up.
seekRequest ==
  /\ pc = "yield"
  /\ Cardinality(timers) <= MaxLinger
  /\ currentTime' = interval * i
  /\ seekPending' = TRUE
  /\ waits' = waits \cup {CurWait}
  /\ listeners' = listeners \cup {CurWait}
  /\ timers' = timers \cup {CurWait}
  /\ pc' = "seekwait"
  /\ UNCHANGED <<appVars, compVars, readyState, duration, paused, mediaEvents,
                 surface, i, interval, candidates, detached, alertMsg, obsVars,
                 countVars>>

\* A scan that any onSeeked resumes, also that of an earlier wait.
ResumeOnAny(ws) == IF pc = "seekwait" THEN "settle" ELSE pc

\* The scan goes on when the wait it is suspended at is resolved.
Resume(ws) == IF pc = "seekwait" /\ CurWait \notin ws THEN "settle" ELSE pc

\* The video delivers the seek-completed notification: every registered
\* onSeeked runs, removes itself and resolves its wait.
seekedEvent ==
  /\ seekPending
  /\ seekPending' = FALSE
  /\ listeners' = {}
  /\ waits' = waits \ listeners
  /\ pc' = Resume(waits \ listeners)
  /\ UNCHANGED <<appVars, compVars, readyState, duration, currentTime, paused,
                 mediaEvents, surface, i, interval, candidates, timers,
                 detached, alertMsg, obsVars, countVars>>

\* A timer whose callback resolves whichever wait is outstanding.
timerFireResolvesCurrent ==
  /\ timers # {}
  /\ LET w == CHOOSE x \in timers : \A y \in timers : x <= y
     IN /\ timers' = timers \ {w}
        /\ listeners' = {}
        /\ waits' = {}
        /\ pc' = Resume({})
  /\ UNCHANGED <<appVars, compVars, videoVars, surface, i, interval,
                 candidates, detached, alertMsg, obsVars, countVars>>

\* The oldest 1.5 s timer fires: its onSeeked removes its listener and
\* resolves its wait, which has no effect on a wait already resolved.
timerFire ==
  /\ timers # {}
  /\ LET w == CHOOSE x \in timers : \A y \in timers : x <= y
     IN /\ timers' = timers \ {w}
        /\ listeners' = listeners \ {w}
        /\ waits' = waits \ {w}
        /\ pc' = Resume(waits \ {w})
  /\ UNCHANGED <<appVars, compVars, videoVars, surface, i, interval,
                 candidates, detached, alertMsg, obsVars, countVars>>

\* A loop that stops one iteration early.
loopContinuesOffByOne(k) == k < steps - 1

\* The loop condition and the check after the loop.
loopContinues(k) == k < steps
hasCandidates(cands) == Len(cands) > 0

\* A catch without the finally: the flag and the status stay.
scanCatchNoFinally(logs, text) ==
  /\ debugLogs' = addLog(logs, ErrMsg("ERROR", text))
  /\ alertMsg' = ErrMsg("Auto-select failed.", text)
  /\ scanError' = text
  /\ isAnalyzing' = isAnalyzing
  /\ statusMessage' = statusMessage
  /\ outcome' = "failed"
  /\ pc' = "idle"
  /\ i' = 0
  /\ interval' = 0
  /\ candidates' = <<>>

\* catch and finally of the deferred callback: the error is logged and
\* shown, the analyzing flag and the status message are cleared.
scanCatch(logs, text) ==
  /\ debugLogs' = addLog(logs, ErrMsg("ERROR", text))
  /\ alertMsg' = ErrMsg("Auto-select failed.", text)
  /\ scanError' = text
  /\ isAnalyzing' = FALSE
  /\ statusMessage' = NoMsg
  /\ outcome' = "failed"
  /\ pc' = "idle"
  /\ i' = 0
  /\ interval' = 0
  /\ candidates' = <<>>

\* After the paint delay: the capture of iteration i, then the next
\* iteration or, after the last one, the check of the candidates.
capture ==
  /\ pc = "settle"
  /\ LET timestamp == interval * i
         r == createFrameFromVideo(surface, ScanId(CurWait), currentTime)
         cands == IF r.res = "frame" THEN Append(candidates, r.frame)
                  ELSE candidates
         logs == IF r.res = "null"
                   THEN addLog(debugLogs,
                               Msg("Skipped frame at", toFixed1(timestamp)))
                   ELSE debugLogs
     IN /\ attempts' = attempts + 1
        /\ fails' = IF r.res = "frame" THEN fails ELSE fails + 1
        /\ IF r.res = "throw"
             THEN scanCatch(debugLogs, CanvasError)
           ELSE IF loopContinues(i)
             THEN /\ candidates' = cands
                  /\ debugLogs' = logs
                  /\ i' = i + 1
                  /\ statusMessage' = Msg("Scanning video... Frame", i + 1)
                  /\ pc' = "yield"
                  /\ UNCHANGED <<isAnalyzing, interval, alertMsg, outcome,
                                 scanError>>
           ELSE IF hasCandidates(cands)
             THEN /\ candidates' = cands
                  /\ debugLogs' = addLog(logs, Msg("Analyzing", Len(cands)))
                  /\ statusMessage' = Msg("AI is analyzing frames...", 0)
                  /\ pc' = "preRank"
                  /\ UNCHANGED <<isAnalyzing, i, interval, alertMsg, outcome,
                                 scanError>>
           ELSE scanCatch(logs, NoFramesError)
  /\ UNCHANGED <<appVars, frames, isPlaying, videoVars, surface, waits,
                 listeners, timers, detached, rankRequest, rankCalls, lastResp,
                 curated, countVars>>

\* After the 500 ms pause: filterBestFrames is called with the candidates.
rankCall ==
  /\ pc = "preRank"
  /\ rankRequest' = candidates
  /\ rankCalls' = rankCalls + 1
  /\ pc' = "ranking"
  /\ UNCHANGED <<appVars, compVars, videoVars, surface, i, interval,
                 candidates, waits, listeners, timers, detached, alertMsg,
                 attempts, fails, outcome, lastResp, curated, scanError,
                 countVars>>

\* The ranking call settles: the selection replaces the frames, or the
\* error goes to catch.
rankReturn ==
  /\ pc = "ranking"
  /\ \E resp \in RankResponses(Len(candidates)) :
       LET r == filterBestFrames(resp)
       IN /\ lastResp' = resp
          /\ IF r.res = "throw"
               THEN scanCatch(debugLogs, r.msg) /\ UNCHANGED <<frames, curated>>
             ELSE IF r.res = "undefined"
               \* selectedIndices.length of undefined
               THEN /\ scanCatch(debugLogs, TypeError)
                    /\ UNCHANGED <<frames, curated>>
             ELSE /\ debugLogs' = addLog(debugLogs, Msg("Selected", Len(r.sel)))
                  /\ frames' = finalFrames(candidates, r.sel)
                  /\ curated' = finalFrames(candidates, r.sel)
                  /\ isAnalyzing' = FALSE
                  /\ statusMessage' = NoMsg
                  /\ outcome' = "success"
                  /\ pc' = "idle"
                  /\ i' = 0
                  /\ interval' = 0
                  /\ candidates' = <<>>
                  /\ UNCHANGED <<alertMsg, scanError>>
  /\ UNCHANGED <<appVars, isPlaying, videoVars, surface, waits, listeners,
                 timers, detached, attempts, fails, rankRequest, rankCalls,
                 countVars>>

(* ------------- the scan of an unmounted FrameCapturer ------------------ *)
\* What a step of a detached scan leaves alone: the state setters it calls
\* change nothing, and the observations are those of the mounted
\* FrameCapturer.
mountedVars == <<appVars, compVars, videoVars, surface, pc, i, interval,
                 candidates, waits, listeners, timers, obsVars, countVars>>

\* The detached scan d has become e; a scan that has ended and has no
\* timer left is forgotten.
detachedStep(d, e) ==
  detached' = (detached \ {d})
              \cup (IF e.pc = "idle" /\ e.timers = {} THEN {} ELSE {e})

detachedResume(d, ws) ==
  IF d.pc = "seekwait" /\ WaitId(d.scan, d.i) \notin ws THEN "settle"
  ELSE d.pc

\* The scan is over: returned normally or through catch and finally.
detachedEnd(d) ==
  [d EXCEPT !.pc = "idle", !.i = 0, !.interval = 0, !.candidates = <<>>]

\* scanStart of a detached scan: video.duration of its own element.
detachedScanStart(d) ==
  /\ d.pc = "deferred"
  /\ detachedStep(d, [d EXCEPT !.interval = d.duration \div (steps + 1),
                               !.candidates = <<>>,
                               !.i = 1,
                               !.pc = "yield"])
  /\ UNCHANGED <<mountedVars, alertMsg>>

\* seekRequest of a detached scan.
detachedSeekRequest(d) ==
  /\ d.pc = "yield"
  /\ Cardinality(d.timers) <= MaxLinger
  /\ LET w == WaitId(d.scan, d.i)
     IN detachedStep(d, [d EXCEPT !.seekPending = TRUE,
                                  !.waits = d.waits \cup {w},
                                  !.listeners = d.listeners \cup {w},
                                  !.timers = d.timers \cup {w},
                                  !.pc = "seekwait"])
  /\ UNCHANGED <<mountedVars, alertMsg>>

\* The detached element delivers its seek-completed notification.
detachedSeekedEvent(d) ==
  /\ d.seekPending
  /\ detachedStep(d, [d EXCEPT !.seekPending = FALSE,
                               !.listeners = {},
                               !.waits = d.waits \ d.listeners,
                               !.pc = detachedResume(d, d.waits \ d.listeners)])
  /\ UNCHANGED <<mountedVars, alertMsg>>

\* The oldest 1.5 s timer of an unmounted FrameCapturer fires.
detachedTimerFire(d) ==
  /\ d.timers # {}
  /\ LET w == CHOOSE x \in d.timers : \A y \in d.timers : x <= y
     IN detachedStep(d, [d EXCEPT !.timers = d.timers \ {w},
                                  !.listeners = d.listeners \ {w},
                                  !.waits = d.waits \ {w},
                                  !.pc = detachedResume(d, d.waits \ {w})])
  /\ UNCHANGED <<mountedVars, alertMsg>>

\* capture of a detached scan: createFrameFromVideo finds no canvas and
\* returns null.
detachedCapture(d) ==
  /\ d.pc = "settle"
  /\ LET r == createFrameFromVideo("noctx", 0, 0)
     IN /\ r.res = "null"
        /\ IF loopContinues(d.i)
             THEN /\ detachedStep(d, [d EXCEPT !.i = d.i + 1, !.pc = "yield"])
                  /\ UNCHANGED alertMsg
           ELSE IF hasCandidates(d.candidates)
             THEN /\ detachedStep(d, [d EXCEPT !.pc = "preRank"])
                  /\ UNCHANGED alertMsg
           ELSE /\ detachedStep(d, detachedEnd(d))
                /\ alertMsg' = ErrMsg("Auto-select failed.", NoFramesError)
  /\ UNCHANGED mountedVars

\* rankCall of a detached scan: filterBestFrames is called with the
\* candidates captured before the unmount.
detachedRankCall(d) ==
  /\ d.pc = "preRank"
  /\ detachedStep(d, [d EXCEPT !.pc = "ranking"])
  /\ UNCHANGED <<mountedVars, alertMsg>>

\* rankReturn of a detached scan: setFrames changes nothing, an error is
\* still shown.
detachedRankReturn(d) ==
  /\ d.pc = "ranking"
  /\ detachedStep(d, detachedEnd(d))
  /\ \E resp \in RankResponses(Len(d.candidates)) :
       LET r == filterBestFrames(resp)
       IN alertMsg' =
            IF r.res = "throw" THEN ErrMsg("Auto-select failed.", r.msg)
            ELSE IF r.res = "undefined"
              THEN ErrMsg("Auto-select failed.", TypeError)
            ELSE alertMsg
  /\ UNCHANGED mountedVars

\* A step of the scan or of a timer of an unmounted FrameCapturer.
detachedScan ==
  \E d \in detached :
    \/ detachedScanStart(d)
    \/ detachedSeekRequest(d)
    \/ detachedSeekedEvent(d)
    \/ detachedTimerFire(d)
    \/ detachedCapture(d)
    \/ detachedRankCall(d)
    \/ detachedRankReturn(d)

(* ------------------------------- Next ---------------------------------- *)
Next ==
  \/ handleVideoSelected
  \/ onBack
  \/ onGenerate
  \/ handleGenerateDone
  \/ tryAgain
  \/ backToEditor
  \/ handleReset
  \/ loadedMetadata
  \/ loadedData
  \/ playAdvance
  \/ onPlay
  \/ onPause
  \/ playOverlay
  \/ playButton
  \/ captureFrame
  \/ onRemoveFrame
  \/ handleAutoCapture
  \/ scanStart
  \/ seekRequest
  \/ seekedEvent
  \/ timerFire
  \/ capture
  \/ rankCall
  \/ rankReturn
  \/ detachedScan

\* The whole application; the drawing surface keeps the condition it
\* starts with.
Spec == Init /\ [][Next]_vars

\* A FrameCapturer whose video is loaded, before any scan.
LoadedCapturer ==
  /\ appState = "CAPTURE"
  /\ videoFile = TheFile
  /\ appFrames = <<>>
  /\ handoutData = Null
  /\ error = "null"
  /\ genRequest = <<>>
  /\ genCalls = 0
  /\ isAnalyzing = FALSE
  /\ statusMessage = NoMsg
  /\ debugLogs = <<>>
  /\ readyState = HAVE_CURRENT_DATA
  /\ duration \in Durations
  /\ currentTime = 0
  /\ seekPending = FALSE
  /\ mediaEvents = <<>>
  /\ surface \in Surfaces
  /\ pc = "idle"
  /\ i = 0
  /\ interval = 0
  /\ candidates = <<>>
  /\ waits = {}
  /\ listeners = {}
  /\ timers = {}
  /\ detached = {}
  /\ alertMsg = NoMsg
  /\ attempts = 0
  /\ fails = 0
  /\ rankRequest = <<>>
  /\ rankCalls = 0
  /\ outcome = "none"
  /\ lastResp = NoResponse
  /\ curated = <<>>
  /\ scanError = ""
  /\ scans = 0
  /\ surfaceChanges = 0
  /\ advances = 0
  /\ backs = 0

\* One FrameCapturer with a loaded and paused video running auto-select,
\* with a drawing surface whose condition changes during the scan and a
\* user who leaves the video alone.
ScanInit ==
  /\ LoadedCapturer
  /\ manual \in 0..1
  /\ frames = [k \in 1..manual |-> CapturedFrame(ManualId(k), 0)]
  /\ isPlaying = FALSE
  /\ paused = TRUE

ScanNext ==
  \/ handleAutoCapture
  \/ scanStart
  \/ seekRequest
  \/ seekedEvent
  \/ timerFire
  \/ capture
  \/ rankCall
  \/ rankReturn
  \/ surfaceChange

ScanSpec == ScanInit /\ [][ScanNext]_vars

\* The same with a surface that keeps its condition,
\* under the scheduling the scan relies on: the timers of setTimeout fire
\* and the ranking call settles; nothing makes the video deliver its
\* seek-completed notification.
LiveScanInit ==
  /\ LoadedCapturer
  /\ manual = 0
  /\ frames = <<>>
  /\ isPlaying = FALSE
  /\ paused = TRUE

LiveScanNext ==
  \/ handleAutoCapture
  \/ scanStart
  \/ seekRequest
  \/ seekedEvent
  \/ timerFire
  \/ capture
  \/ rankCall
  \/ rankReturn

ScanFairness ==
  /\ WF_vars(scanStart)
  /\ WF_vars(seekRequest)
  /\ WF_vars(timerFire)
  /\ WF_vars(capture)
  /\ WF_vars(rankCall)
  /\ WF_vars(rankReturn)

LiveScanSpec == LiveScanInit /\ [][LiveScanNext]_vars /\ ScanFairness

\* The capture screen: one FrameCapturer with a loaded video, from the
\* first capture to the press on Generate, worked with the Capture Frame,
\* Auto-Select, remove and Generate buttons.
EditInit ==
  /\ LoadedCapturer
  /\ manual = 0
  /\ frames = <<>>
  /\ isPlaying = FALSE
  /\ paused = TRUE

EditNext ==
  \/ captureFrame
  \/ onRemoveFrame
  \/ onGenerate
  \/ handleAutoCapture
  \/ scanStart
  \/ seekRequest
  \/ seekedEvent
  \/ timerFire
  \/ capture
  \/ rankCall
  \/ rankReturn

EditSpec == EditInit /\ [][EditNext]_vars

\* Auto-select with a user who leaves the capture screen with the Back
\* button, which the keyboard reaches during a scan, and chooses a video
\* again.
RemountNext ==
  \/ handleAutoCapture
  \/ scanStart
  \/ seekRequest
  \/ seekedEvent
  \/ timerFire
  \/ capture
  \/ rankCall
  \/ rankReturn
  \/ onBack
  \/ handleVideoSelected
  \/ loadedMetadata
  \/ loadedData
  \/ detachedScan

RemountSpec == EditInit /\ [][RemountNext]_vars

\* The capture screen from the mount of the FrameCapturer on, while its
\* video loads: auto-select may be requested before the video is ready.
LoadInit ==
  /\ appState = "CAPTURE"
  /\ videoFile = TheFile
  /\ appFrames = <<>>
  /\ handoutData = Null
  /\ error = "null"
  /\ genRequest = <<>>
  /\ genCalls = 0
  /\ frames = <<>>
  /\ isPlaying = FALSE
  /\ isAnalyzing = FALSE
  /\ statusMessage = NoMsg
  /\ debugLogs = <<>>
  /\ readyState = 0
  /\ duration = NaN
  /\ currentTime = 0
  /\ paused = TRUE
  /\ seekPending = FALSE
  /\ mediaEvents = <<>>
  /\ surface \in Surfaces
  /\ pc = "idle"
  /\ i = 0
  /\ interval = 0
  /\ candidates = <<>>
  /\ waits = {}
  /\ listeners = {}
  /\ timers = {}
  /\ detached = {}
  /\ alertMsg = NoMsg
  /\ attempts = 0
  /\ fails = 0
  /\ rankRequest = <<>>
  /\ rankCalls = 0
  /\ outcome = "none"
  /\ lastResp = NoResponse
  /\ curated = <<>>
  /\ scanError = ""
  /\ scans = 0
  /\ manual = 0
  /\ surfaceChanges = 0
  /\ advances = 0
  /\ backs = 0

LoadNext ==
  \/ loadedMetadata
  \/ loadedData
  \/ captureFrame
  \/ handleAutoCapture
  \/ scanStart
  \/ seekRequest
  \/ seekedEvent
  \/ timerFire
  \/ capture
  \/ rankCall
  \/ rankReturn

LoadSpec == LoadInit /\ [][LoadNext]_vars

\* Frames captured before the model starts: their ids follow those of the
\* captures the model makes, their timestamps are positions of the video.
PriorId(k) == MaxManual + MaxScans * steps + k
PriorTimes(d) == {0, d \div 2, d}
PriorFrames(d) ==
  UNION {{[k \in 1..n |-> CapturedFrame(PriorId(k), ts[k])] :
            ts \in [1..n -> PriorTimes(d)]} : n \in 0..MaxPrior}

\* The capture screen with a Curated Set of earlier captures, in any
\* order of timestamps.
CuratedInit ==
  /\ LoadedCapturer
  /\ manual = 0
  /\ frames \in PriorFrames(duration)
  /\ isPlaying = FALSE
  /\ paused = TRUE

\* From the press on Generate to the handout or the error screen.
HandoutNext ==
  \/ onGenerate
  \/ handleGenerateDone
  \/ tryAgain
  \/ backToEditor
  \/ handleReset

HandoutSpec == CuratedInit /\ [][HandoutNext]_vars

\* Editing the Curated Set by hand: play, capture and remove, with a
\* drawing surface in any condition.
CuratedNext ==
  \/ playButton
  \/ playAdvance
  \/ onPlay
  \/ onPause
  \/ captureFrame
  \/ onRemoveFrame

CuratedSpec == CuratedInit /\ [][CuratedNext]_vars

TypeOK ==
  /\ appState \in {"UPLOAD", "CAPTURE", "GENERATING", "PREVIEW", "ERROR"}
  /\ pc \in {"idle", "deferred", "yield", "seekwait", "settle", "preRank",
             "ranking"}
  /\ i \in 0..steps
  /\ Len(candidates) <= steps
  /\ isAnalyzing = (pc # "idle")
  /\ backs \in 0..MaxBacks
  /\ Len(mediaEvents) <= MaxEvents + 1
  /\ Cardinality(detached) <= MaxScans * (1 + MaxBacks)

(* ------------------------------ claims --------------------------------- *)
ScanEnded == pc = "idle" /\ outcome \in {"success", "failed"}

Increasing(fs) ==
  \A a \in 1..Len(fs) : \A b \in 1..Len(fs) :
    a < b => fs[a].timestamp < fs[b].timestamp

NonDecreasing(fs) ==
  \A a \in 1..Len(fs) : \A b \in 1..Len(fs) :
    a < b => fs[a].timestamp <= fs[b].timestamp

\* C1: a capture failure at one timestamp of a scan, the thrown capture
\* error included, is skipped: a scan in which a capture failed has still
\* attempted the capture at all 12 timestamps when it ends.
C1_FailureSkipped == (ScanEnded /\ fails > 0) => attempts = steps

\* C2: the Candidate Set handed to filterBestFrames has exactly
\* 12 - k entries, k the number of failed captures of the scan, with
\* strictly increasing timestamps, however the seek waits were resolved.
C2_CandidateSet ==
  rankCalls > 0 =>
    /\ Len(rankRequest) = steps - fails
    /\ Increasing(rankRequest)

\* A scan with some but not all captures failed has handed over its
\* candidates.
C2_Witness == rankCalls > 0 /\ fails > 0 /\ fails < steps

\* C3: when all 12 captures of a scan failed, the scan has ended with the
\* no-frames-captured error and filterBestFrames was not called.
C3_NoFramesCaptured ==
  fails = steps =>
    /\ rankCalls = 0
    /\ outcome = "failed"
    /\ scanError = NoFramesError

\* The positions of the valid indices of an index list for n candidates.
ValidAt(sel, n) == {k \in 1..Len(sel) : sel[k] >= 0 /\ sel[k] < n}

\* C4: the curated output is the sequence of candidate[idx] for the
\* indices idx of the response with 0 <= idx < n, in the order given; the
\* other indices are dropped and raise no error.
C4_CuratedOutput ==
  (rankCalls > 0 /\ pc = "idle" /\ lastResp.kind = "indices") =>
    LET sel == lastResp.sel
        valid == ValidAt(sel, Len(rankRequest))
    IN /\ outcome = "success"
       /\ Len(curated) = Cardinality(valid)
       /\ \A k \in valid :
            curated[Cardinality({j \in valid : j <= k})]
              = rankRequest[sel[k] + 1]

\* A response that lists two valid indices in decreasing order was applied.
C4_Witness ==
  /\ outcome = "success"
  /\ Len(lastResp.sel) = 2
  /\ lastResp.sel[1] > lastResp.sel[2]
  /\ lastResp.sel[2] >= 0
  /\ Len(curated) = 2

\* C5: in every reachable state the Curated Set, the frames list of the
\* capture screen, is in non-decreasing timestamp order.
C5_CuratedSorted == NonDecreasing(frames)

\* C5 as amended: the frames submitted to the generation capability are
\* in non-decreasing timestamp order in every reachable state, whatever
\* the order of the Curated Set they come from, and they are as many as
\* the frames of that set.
C5_Amended ==
  /\ NonDecreasing(genRequest)
  /\ appState = "GENERATING" => Len(genRequest) = Len(appFrames)

\* A Curated Set out of timestamp order is being generated from.
C5_Witness ==
  /\ appState = "GENERATING"
  /\ ~NonDecreasing(appFrames)
  /\ Len(genRequest) = Len(appFrames)

NoDuplicates(fs) ==
  \A a \in 1..Len(fs) : \A b \in 1..Len(fs) : a # b => fs[a].id # fs[b].id

\* C6: each candidate frame appears at most once in the Curated Set and in
\* the frame set handed to the Handout Generator, whatever the ranking
\* response.
C6_Deduplicated ==
  /\ NoDuplicates(frames)
  /\ NoDuplicates(appFrames)
  /\ NoDuplicates(genRequest)

FailedKinds == {"reject", "empty", "unparsable", "noIndices"}

\* C7: when the ranking call fails, the attempt has ended with the error
\* shown to the user (scanError is the message of that alert), and no
\* candidate has entered the Curated Set.
C7_SelectionFailed ==
  (pc = "idle" /\ lastResp.kind \in FailedKinds) =>
    /\ outcome = "failed"
    /\ scanError # ""
    /\ lastResp.kind = "empty" => scanError = "No response from Gemini"
    /\ curated = <<>>
    /\ \A k \in 1..Len(frames) : \A c \in 1..Len(rankRequest) :
         frames[k].id # rankRequest[c].id

\* The ranking call of a scan with candidates answered with an empty text.
C7_Witness ==
  /\ pc = "idle"
  /\ lastResp.kind = "empty"
  /\ Len(rankRequest) > 0
  /\ alertMsg = ErrMsg("Auto-select failed.", "No response from Gemini")
  /\ scanError = "No response from Gemini"

\* C8: a ranking response with no usable index, an empty list or one with
\* no index in [0, candidateCount), makes the attempt fail; it never ends
\* as a success with an empty Curated Set.
C8_NothingUsable ==
  (pc = "idle" /\ lastResp.kind = "indices"
     /\ ValidAt(lastResp.sel, Len(rankRequest)) = {}) =>
    outcome = "failed"

\* Every seek wait resolves, by the timeout if the notification is never
\* delivered, and the scan reaches the capture step of that iteration.
SeekWaitResolves ==
  \A k \in 1..steps :
    (pc = "seekwait" /\ i = k) ~> (pc = "settle" /\ i = k /\ waits = {})

\* C9: every seek wait resolves, by the timeout if the notification is
\* never delivered, so that a scan never blocks at a seek and reaches the
\* capture step of each of its 12 iterations.
C9_SeekWaitResolves ==
  /\ SeekWaitResolves
  /\ \A k \in 1..steps :
       (pc = "yield" /\ i = 1) ~> (pc = "settle" /\ i = k)

\* C10: the iterations of a scan are sequential: at most one seek wait is
\* outstanding, it is the one of the current iteration and the scan is
\* suspended at it; the seek of iteration i is requested only after the
\* captures of the i - 1 iterations before it; the candidates are in
\* iteration order.
C10_Sequential ==
  /\ Cardinality(waits) <= 1
  /\ waits # {} => (pc = "seekwait" /\ waits = {CurWait})
  /\ pc = "seekwait" => waits = {CurWait}
  /\ pc \in {"yield", "seekwait", "settle"} => attempts = i - 1
  /\ \A a \in 1..Len(candidates) : \A b \in 1..Len(candidates) :
       a < b => candidates[a].id < candidates[b].id

\* The last seek wait is outstanding while an earlier timer is pending.
C10_Witness ==
  /\ pc = "seekwait" /\ i = steps /\ waits = {CurWait}
  /\ Cardinality(timers) = 2
  /\ Len(candidates) = steps - 1

\* The scan is past its deferred start: it owns the video.
ScanOwnsVideo == pc \notin {"idle", "deferred"}

\* The scans in progress: that of the mounted FrameCapturer and those of
\* the unmounted ones.
ActiveScans ==
  (IF pc # "idle" THEN 1 ELSE 0)
  + Cardinality({d \in detached : d.pc # "idle"})

\* C11: while a scan is in progress no manual capture runs, no second
\* auto-select starts, so that at most one scan is active at any time, and
\* Generate is not taken; the analyzing flag is set from the confirmation
\* on; once the scan has paused the video, the video stays paused and its
\* position moves only by the seek of the scan, and the Curated Set
\* changes only when the ranking of that scan returns.
C11_ScanExclusive ==
  /\ [](pc # "idle" => isAnalyzing)
  /\ [](ActiveScans <= 1)
  /\ [][ActiveScans > 0 =>
          /\ manual' = manual
          /\ scans' = scans
          /\ genRequest' = genRequest]_vars
  /\ [][(ScanOwnsVideo /\ pc' # "idle") =>
          /\ paused'
          /\ frames' = frames
          /\ currentTime' # currentTime =>
               (pc = "yield" /\ pc' = "seekwait")]_vars

\* The video is not ready or its duration is unknown or unbounded.
NotReady ==
  readyState < HAVE_CURRENT_DATA \/ isNaN(duration) \/ duration = Infinity

PreconditionMessages ==
  {"Video is not ready.", "Cannot determine video duration."}

\* C12: while the video is not ready or its duration is NaN or infinite,
\* no step starts a scan: the analyzing flag is not set, no seek is
\* requested and no seek wait or timer is set up; a request for
\* auto-select in such a state shows a message and leaves the Curated Set,
\* the video position, the flag, the status and the log as they were.
C12_PreconditionFails ==
  [][NotReady =>
       /\ pc' = "idle" /\ ~isAnalyzing'
       /\ scans' = scans
       /\ seekPending' = seekPending
       /\ waits' = waits /\ listeners' = listeners /\ timers' = timers
       /\ handleAutoCapture =>
            /\ alertMsg'.kind \in PreconditionMessages
            /\ UNCHANGED <<frames, currentTime, paused, compVars>>]_vars

\* Auto-select was refused for a stream of unbounded duration of which a
\* frame was captured.
C12_Witness ==
  /\ alertMsg = Msg("Cannot determine video duration.", 0)
  /\ duration = Infinity /\ readyState = HAVE_CURRENT_DATA
  /\ Len(frames) > 0
  /\ ~isAnalyzing /\ pc = "idle" /\ timers = {}

ConfirmMessage == Msg("This will clear your current frames. Continue?", 0)

\* C13: a request for auto-select that confirms no scan (the step that
\* shows the confirmation and starts none: it was cancelled) leaves the
\* Curated Set, the analyzing flag, the status, the log, the video
\* position and the scan as they were; and a step that empties a
\* non-empty Curated Set is the confirmed start of a scan, a manual
\* removal or the unmount of the capture screen.
C13_ConfirmGate ==
  [][/\ (alertMsg # ConfirmMessage /\ alertMsg' = ConfirmMessage
            /\ scans' = scans) =>
          UNCHANGED <<frames, isAnalyzing, statusMessage, debugLogs,
                      currentTime, paused, seekPending, scanVars>>
     /\ (frames # <<>> /\ frames' = <<>>) =>
          \/ /\ pc = "idle" /\ pc' = "deferred"
             /\ scans' = scans + 1
             /\ alertMsg' = ConfirmMessage
          \/ /\ pc' = pc
             /\ \E k \in 1..Len(frames) : frames' = removeFrame(frames[k].id)
          \/ appState' # "CAPTURE"]_vars

\* The confirmation was cancelled with frames in the Curated Set.
C13_Witness ==
  /\ alertMsg = ConfirmMessage
  /\ scans = 0 /\ pc = "idle" /\ ~isAnalyzing
  /\ Len(frames) > 0

Count(fs, f) == Cardinality({k \in 1..Len(fs) : fs[k] = f})

\* The same frames, each as often, in whatever order.
SameFrames(fs, gs) ==
  /\ Len(fs) = Len(gs)
  /\ \A k \in 1..Len(fs) : Count(fs, fs[k]) = Count(gs, fs[k])

\* C14: the frames submitted to the generation capability are the frames
\* handed to handleGenerate, each as often, in non-decreasing timestamp
\* order; the sequence handed over is stored as it was given; and the
\* display gives the n-th step the n-th submitted frame.
C14_SortedSubmission ==
  /\ [](appState \in {"GENERATING", "PREVIEW", "ERROR"} =>
          /\ SameFrames(genRequest, appFrames)
          /\ NonDecreasing(genRequest))
  /\ [](HandoutDisplay.res = "rendered" =>
          \A n \in 1..Len(HandoutDisplay.steps) :
            n <= Len(genRequest) =>
              HandoutDisplay.steps[n].image = genRequest[n])
  /\ [][(appState = "CAPTURE" /\ appState' = "GENERATING") =>
          appFrames' = frames]_vars
  /\ [][appState # "CAPTURE" => appFrames' \in {appFrames, <<>>}]_vars

\* A handout of two steps is shown for frames handed over out of
\* timestamp order.
C14_Witness ==
  /\ HandoutDisplay.res = "rendered"
  /\ Len(HandoutDisplay.steps) >= 2
  /\ Len(appFrames) >= 2
  /\ ~NonDecreasing(appFrames)

\* C15: a document with s steps is shown with exactly s steps; step n has
\* the n-th frame in timestamp order when n <= f and no image when n > f;
\* the display raises no error.
C15_StepPairing ==
  (appState = "PREVIEW" /\ handoutData # Null /\ handoutData.steps >= 0) =>
    /\ HandoutDisplay.res = "rendered"
    /\ Len(HandoutDisplay.steps) = handoutData.steps
    /\ \A n \in 1..handoutData.steps :
         HandoutDisplay.steps[n].image =
           IF n <= Len(appFrames) THEN sortedFrames(appFrames)[n] ELSE NoImage

\* A document with more steps than frames is shown.
C15_Witness ==
  /\ appState = "PREVIEW" /\ handoutData # Null
  /\ handoutData.steps > Len(appFrames)
  /\ Len(appFrames) > 0
  /\ HandoutDisplay.steps[handoutData.steps].image = NoImage

\* C16: the PREVIEW screen is reached only with a document that has its
\* title, its summary and its steps.
C16_NoPartialDocument ==
  appState = "PREVIEW" =>
    /\ handoutData # Null
    /\ handoutData.title /\ handoutData.summary
    /\ handoutData.steps >= 0

IsPrefix(fs, gs) == Len(fs) <= Len(gs) /\ SubSeq(gs, 1, Len(fs)) = fs

\* fs is what is left of gs when some entries are taken out.
RECURSIVE IsSubseq(_, _)
IsSubseq(fs, gs) ==
  IF fs = <<>> THEN TRUE
  ELSE IF gs = <<>> THEN FALSE
  ELSE IF Head(fs) = Head(gs) THEN IsSubseq(Tail(fs), Tail(gs))
  ELSE IsSubseq(fs, Tail(gs))

\* C17: after a manual capture the previous entries of the Curated Set
\* are a prefix of the new list, which is at most one entry longer; after
\* a manual removal the remaining entries are in the order they had.
C17_NoReorder ==
  [][/\ manual' = manual + 1 =>
          (IsPrefix(frames, frames') /\ Len(frames') <= Len(frames) + 1)
     /\ (Len(frames') < Len(frames) /\ appState' = appState /\ pc' = pc) =>
          IsSubseq(frames', frames)]_vars

\* The middle one of three frames was removed and a frame was captured
\* after them.
C17_Witness ==
  /\ Len(frames) = 3
  /\ frames[1].id = PriorId(1)
  /\ frames[2].id = PriorId(3)
  /\ frames[3].id = ManualId(1)

\* C18: the seek target of iteration i is duration * i / (steps + 1), for
\* i = 1..12 in that order, one seek per iteration; it lies strictly
\* between 0 and the duration and is strictly greater than the target of
\* the iteration before.
C18_SeekTargets ==
  [][(pc = "yield" /\ pc' = "seekwait") =>
       /\ i \in 1..steps
       /\ attempts = i - 1
       /\ currentTime' * (steps + 1) = duration * i
       /\ 0 < currentTime' /\ currentTime' < duration
       /\ i > 1 => currentTime' * (steps + 1) > duration * (i - 1)
       /\ i' = i]_vars

\* The seek of the last iteration was requested.
C18_Witness ==
  /\ pc = "seekwait" /\ i = steps
  /\ currentTime * (steps + 1) = duration * steps

\* C19: a scan that has ended, by the hand-off to filterBestFrames or by a
\* failure, has performed all 12 seek-and-capture iterations, unless it
\* left the loop with no frame captured at all.
C19_TwelveIterations ==
  /\ rankCalls > 0 => attempts = steps
  /\ ScanEnded => (attempts = steps \/ fails = attempts)

CaptureErrorAlert == ErrMsg("Could not capture frame.", CanvasError)

\* C20: a manual capture at which the frame extractor throws the export
\* error or hands back no frame leaves the Curated Set as it was; the
\* thrown error is shown to the user, a missing frame shows nothing.
C20_FailedManualCapture ==
  [][(manual' = manual + 1 /\ surface # "ok") =>
       /\ frames' = frames
       /\ surface = "tainted" => alertMsg' = CaptureErrorAlert
       /\ surface = "noctx" => alertMsg' = alertMsg]_vars

\* The export error of a manual capture was shown, with several frames
\* in the Curated Set.
C20_Witness ==
  /\ manual = 1
  /\ alertMsg = CaptureErrorAlert
  /\ Len(frames) >= 2
  /\ \A k \in 1..Len(frames) : frames[k].id # ManualId(1)

\* The messages of the errors generateHandoutContent raises.
GenerationErrors ==
  {generateHandoutContent(resp).msg :
     resp \in {r \in GenResponses : generateHandoutContent(r).res = "throw"}}

\* C21: when the generation call fails, the message shown on the ERROR
\* screen is the message of the error that generateHandoutContent raised.
C21_ErrorVerbatim == appState = "ERROR" => error \in GenerationErrors

\* C22: a failed generation leaves the app in ERROR with the message and
\* the frames of the attempt stored; Try Again calls the generation
\* capability once more with the frames of the failed attempt, which are
\* the frames of the Curated Set when Generate was pressed.
C22_RetrySameFrames ==
  /\ [](appState = "ERROR" =>
          (error # "null" /\ Len(appFrames) > 0
             /\ SameFrames(genRequest, appFrames)))
  /\ [][(appState = "GENERATING" /\ appState' = "ERROR") =>
          appFrames' = appFrames]_vars
  /\ [][(appState = "CAPTURE" /\ appState' = "GENERATING") =>
          (appFrames' = frames /\ SameFrames(genRequest', frames)
             /\ genCalls' = genCalls + 1)]_vars
  /\ [][(appState = "ERROR" /\ appState' = "GENERATING") =>
          (appFrames' = appFrames /\ genRequest' = genRequest
             /\ genCalls' = genCalls + 1)]_vars

\* The generation runs a second time, for frames out of timestamp order.
C22_Witness ==
  /\ appState = "GENERATING"
  /\ genCalls = 2
  /\ Len(appFrames) >= 2 /\ ~NonDecreasing(appFrames)
  /\ SameFrames(genRequest, appFrames)

\* C23: the analyzing flag is set exactly while a scan runs, from its
\* confirmation to its end, and the status message is shown only then;
\* every scan that runs ends, with the flag and the status message
\* cleared, whatever its outcome.
C23_FlagCleared ==
  /\ [](isAnalyzing <=> pc # "idle")
  /\ [](isAnalyzing <=> outcome = "running")
  /\ [](~isAnalyzing => statusMessage = NoMsg)
  /\ isAnalyzing ~> (~isAnalyzing /\ statusMessage = NoMsg /\ ScanEnded)

\* A scan has ended with the capture error and the flag is cleared.
C23_Witness ==
  /\ ScanEnded /\ scanError = CanvasError
  /\ ~isAnalyzing /\ statusMessage = NoMsg

\* The seek-completed notification is delivered in this step.
SeekedDelivered == seekPending /\ ~seekPending'

\* C24: the delivery of the seek-completed notification cancels no timer;
\* a seek wait is resolved only by a notification delivered while its
\* listener is registered or by its own timer; a timer that fires for a
\* wait already resolved changes nothing of the scan.
C24_LeftoverTimer ==
  [][/\ SeekedDelivered => timers' = timers
     /\ \A w \in waits \ waits' :
          \/ SeekedDelivered /\ w \in listeners
          \/ w \in timers \ timers'
     /\ \A w \in timers \ timers' :
          w \notin waits =>
            UNCHANGED <<pc, i, waits, candidates, attempts, frames>>]_vars

\* The wait of the second iteration is outstanding while the timer of the
\* first one, resolved by the notification, is still pending.
C24_Witness ==
  /\ pc = "seekwait" /\ i = 2
  /\ waits = {CurWait} /\ listeners = {CurWait}
  /\ WaitId(scans, 1) \in timers

\* C25: a manual removal takes exactly one entry out of the Curated Set,
\* also out of one that a ranking response with a repeated index made.
C25_RemovesOne ==
  [][(Len(frames') < Len(frames) /\ appState' = appState /\ pc' = pc) =>
       Len(frames') = Len(frames) - 1]_vars

\* C26: from the confirmation of an auto-select on, no frame curated
\* before it is in the Curated Set: while the scan runs and after it
\* failed the set is empty, and after it succeeded every frame of the
\* set is a candidate of that scan.
C26_NothingSurvives ==
  scans > 0 =>
    /\ outcome \in {"running", "failed"} => frames = <<>>
    /\ outcome = "success" =>
         \A k \in 1..Len(frames) :
           \E c \in 1..Len(rankRequest) : frames[k] = rankRequest[c]
    /\ \A k \in 1..Len(frames) : \A m \in 1..MaxManual :
         frames[k].id # ManualId(m)

\* A scan started with a frame in the Curated Set failed at the ranking.
C26_Witness ==
  /\ ScanEnded /\ outcome = "failed"
  /\ manual = 1
  /\ lastResp.kind = "reject"
  /\ frames = <<>>

\* C27: on the PREVIEW screen a document is stored and on the ERROR screen
\* an error message is stored; the GENERATING screen is left only to
\* PREVIEW or ERROR; after handleReset the app is in UPLOAD with the video
\* file, the frames, the document and the error cleared.
C27_ScreenMachine ==
  /\ [](appState = "PREVIEW" => handoutData # Null)
  /\ [](appState = "ERROR" => error # "null")
  /\ [][(appState = "GENERATING" /\ appState' # "GENERATING") =>
          appState' \in {"PREVIEW", "ERROR"}]_vars
  /\ [][(appState = "PREVIEW" /\ appState' # "PREVIEW") =>
          /\ appState' = "UPLOAD"
          /\ videoFile' = NoFile
          /\ appFrames' = <<>>
          /\ handoutData' = Null
          /\ error' = "null"]_vars

====
